---- MODULE Spec2Model ----
(***************************************************************************)
(* State-machine model of the Smart-Home-Automation-System coordinators:   *)
(*   energy-management/energy_system.py  (EnergyManagementSystem)          *)
(*   security/security_system.py         (SecuritySystem: MQTT commands,   *)
(*                                        the camera monitor)              *)
(*   security/cctv_system.py             (CCTVSystem: MQTT commands, the   *)
(*                                        recording threads, the alerts)   *)
(*                                                                         *)
(* Time is counted in whole seconds; a time of day is the number of        *)
(* seconds since 00:00:00.  Powers and thresholds are whole watts; the     *)
(* factors 0.8 and 0.7 are applied as exact tenths (x*10 > T*8), which is  *)
(* what the float products give for the thresholds used here.              *)
(*                                                                         *)
(* A call of a method that the class does not define raises AttributeError *)
(* at the call site; it is modelled as the exception it raises, caught by  *)
(* the enclosing try/except of the caller.                                 *)
(***************************************************************************)
EXTENDS Integers, Sequences, FiniteSets, TLC

VARIABLES
    config,               \* self.config (loaded once by load_config)
    now,                  \* the wall clock, seconds since midnight of day 0
    ml_models,            \* self.ml_models: the set of model names it holds
    auto_optimization_enabled,
    current_readings,     \* self.current_readings: device_id -> latest reading
    consumption_history,  \* self.consumption_history: deque(maxlen=1000)
    energy_readings,      \* rows of the energy_readings table
    occupancy_sensors,    \* self.occupancy_sensors: room -> record
    occupancy_data,       \* rows of the occupancy_data table
    weather_data,         \* self.weather_data ({} is the empty function)
    optimization_logs,    \* rows of the optimization_logs table
    optimization_schedule,\* self.optimization_schedule: device_id -> restore
    published,            \* messages the energy system published, in order
    log,                  \* logger lines written by the last handler
    is_peak,              \* optimize_cost_efficiency: local is_peak
    is_off_peak,          \* optimize_cost_efficiency: local is_off_peak
    checked_at,           \* the datetime.now() that pass read (-1: no pass yet)
    system_armed,         \* SecuritySystem.system_armed
    intrusion_detected,   \* SecuritySystem.intrusion_detected
    security_events,      \* rows of the security_events table
    sec_published,        \* messages the security system published, in order
    lastMsg,              \* the MQTT message delivered last
    msgCount,             \* number of MQTT callbacks run so far
    cycleCount,           \* number of optimization cycles run so far
    raised,               \* TRUE iff the last callback let an exception escape
    publish_raises,       \* whether mqtt_client.publish raises at present
    failed_publishes,     \* the publish calls of control_device that raised
    detector,             \* what the anomaly detector returns when asked
    run_state,            \* "constructed", or "returned" once run() is over
    scheduled_jobs,       \* the jobs registered with the schedule module
    face_encodings,       \* SecuritySystem.face_encodings: the enrolled ids
    users,                \* active rows of the users table with a face encoding
    access_logs,          \* rows of the access_logs table
    intrusion_attempts,   \* rows of the intrusion_attempts table
    cam_pc,               \* where the monitor_camera thread of camera 0 stands
    cam_frame,            \* the frame that thread is working on
    previous_frame,       \* monitor_camera: previous_frame is not None
    frameCount,           \* number of frames read so far
    main_pc,              \* where main() of cctv_system.py stands
    cctv_running,         \* CCTVSystem.running
    cctv_cameras,         \* CCTVSystem.cameras: id -> 'active', 'recording'
    cctv_connected,       \* the CCTV MQTT client is connected, its loop runs
    cctv_published,       \* the publish calls of CCTVSystem, in order
    record_threads,       \* the record_camera threads that have not returned
    threadCount,          \* number of record_camera threads started so far
    recordings,           \* rows of the recordings table
    cctv_events,          \* rows of the events table
    alert_queue,          \* CCTVSystem.alert_queue
    alertCount,           \* number of alerts put on alert_queue so far
    email_alerts,         \* the alerts an email was sent for
    push_notifications,   \* the alerts a push notification was sent for
    cmdCount              \* number of CCTV commands delivered so far

vars == <<config, now, ml_models, auto_optimization_enabled, current_readings,
          consumption_history, energy_readings, occupancy_sensors,
          occupancy_data, weather_data, optimization_logs,
          optimization_schedule, published, log,
          is_peak, is_off_peak, checked_at, system_armed, intrusion_detected,
          security_events, sec_published, lastMsg, msgCount, cycleCount,
          raised, publish_raises, failed_publishes, detector, run_state,
          scheduled_jobs, face_encodings, users, access_logs,
          intrusion_attempts,
          cam_pc, cam_frame, previous_frame, frameCount, main_pc,
          cctv_running, cctv_cameras, cctv_connected, cctv_published,
          record_threads, threadCount, recordings, cctv_events, alert_queue,
          alertCount, email_alerts, push_notifications, cmdCount>>

----------------------------------------------------------------------------
(* Bounds of the model *)

MaxMsgs == 2          \* MQTT callbacks per behaviour
MaxCycles == 1        \* optimization cycles per behaviour
MaxFrames == 2        \* camera frames per behaviour

(* Program constants *)

HISTORY_MAXLEN == 1000          \* deque(maxlen=1000)
SECONDS_PER_DAY == 86400

None == "None"                  \* Python None used as a key or a value
EmptyDict == <<>>               \* {} : the function with empty domain

----------------------------------------------------------------------------
(* Generic helpers *)

\* dict.get(key, default)
Get(d, k, default) == IF k \in DOMAIN d THEN d[k] ELSE default

\* d[k] = v on a dict
Put(d, k, v) == [x \in (DOMAIN d) \cup {k} |-> IF x = k THEN v ELSE d[x]]

\* deque(maxlen=n).append(x): the oldest element is evicted when full
DequeAppend(q, x, n) ==
    IF Len(q) >= n THEN Append(Tail(q), x) ELSE Append(q, x)

RECURSIVE SumPower(_, _)
\* sum(reading.get('power', 0) for reading in readings.values())
SumPower(readings, keys) ==
    IF keys = {} THEN 0
    ELSE LET k == CHOOSE x \in keys : TRUE
         IN  Get(readings[k], "power", 0) + SumPower(readings, keys \ {k})

total_power(readings) == SumPower(readings, DOMAIN readings)

\* the set of the elements of a list
Range(seq) == {seq[i] : i \in 1..Len(seq)}

HMS(h, m, s) == h * 3600 + m * 60 + s

\* datetime.strptime(text, '%H:%M').time() of a two-field "HH:MM" text
strptime_HM(text) == HMS(text.hh, text.mm, 0)

\* datetime.now().time()
time_of_day(t) == t % SECONDS_PER_DAY

\* datetime.now().hour
hour_of(t) == time_of_day(t) \div 3600

HM(h, m) == [hh |-> h, mm |-> m]

----------------------------------------------------------------------------
(* Configurations.  DefaultConfig is the built-in one of load_config; the  *)
(* others are contents of energy_config.json.                              *)

Dev(id, power, room, prio) ==
    [id |-> id, power_rating |-> power, room |-> room, priority |-> prio]

DevAlwaysOn(id, power, room, prio) ==
    [id |-> id, power_rating |-> power, room |-> room, priority |-> prio,
     always_on |-> TRUE]

DefaultDevices ==
    [lights |-> << Dev("hall_light", 60, "hall", 3),
                   Dev("kitchen_light", 60, "kitchen", 2),
                   Dev("living_room_light", 100, "living_room", 2),
                   Dev("bedroom_light", 40, "bedroom", 1) >>,
     fans |-> << Dev("hall_fan", 75, "hall", 2),
                 Dev("kitchen_fan", 50, "kitchen", 1),
                 Dev("living_room_fan", 75, "living_room", 1),
                 Dev("bedroom_fan", 75, "bedroom", 1) >>,
     appliances |-> << DevAlwaysOn("refrigerator", 150, "kitchen", 1),
                       Dev("washing_machine", 500, "utility", 3),
                       Dev("air_conditioner", 1500, "living_room", 2),
                       Dev("water_heater", 2000, "utility", 2) >>]

\* the rates are kept in hundredths of the currency unit: 12.50, 8.00, 10.00
DefaultTariff ==
    [peak_hours |-> << [start |-> HM(18, 0), end |-> HM(22, 0)] >>,
     off_peak_hours |-> << [start |-> HM(22, 0), end |-> HM(6, 0)] >>,
     peak_rate |-> 1250,
     off_peak_rate |-> 800,
     normal_rate |-> 1000]

DefaultConfig ==
    [devices |-> DefaultDevices,
     tariff |-> DefaultTariff,
     thresholds |-> [high_usage_alert |-> 2000]]

\* The load-shedding example: A(priority 1, 500W), B(3, 200W), C(2, 100W),
\* threshold 1000W.
ExampleConfig ==
    [devices |-> [lights |-> << >>, fans |-> << >>,
                  appliances |-> << Dev("A", 500, "hall", 1),
                                    Dev("B", 200, "hall", 3),
                                    Dev("C", 100, "hall", 2) >>],
     tariff |-> DefaultTariff,
     thresholds |-> [high_usage_alert |-> 1000]]

\* A household whose appliances are all essential, with a daytime off-peak
\* window (start <= end) next to the overnight one.
EssentialConfig ==
    [devices |-> [lights |-> << Dev("hall_light", 60, "hall", 3) >>,
                  fans |-> << Dev("hall_fan", 75, "hall", 2) >>,
                  appliances |-> << DevAlwaysOn("refrigerator", 150,
                                                "kitchen", 3),
                                    Dev("air_conditioner", 1500, "hall", 2) >>],
     tariff |-> [peak_hours |-> << [start |-> HM(18, 0), end |-> HM(22, 0)] >>,
                 off_peak_hours |-> << [start |-> HM(1, 0), end |-> HM(5, 0)] >>],
     thresholds |-> [high_usage_alert |-> 2000]]

Configs == {DefaultConfig, ExampleConfig, EssentialConfig}

----------------------------------------------------------------------------
(* Tariff windows *)

\* (variant: the end of the window excluded)
in_peak_period_strict_end(period, current_time) ==
    /\ strptime_HM(period.start) <= current_time
    /\ current_time < strptime_HM(period.end)

\* The comparison of one peak window: start <= current_time <= end
in_peak_period(period, current_time) ==
    /\ strptime_HM(period.start) <= current_time
    /\ current_time <= strptime_HM(period.end)

\* is_peak_hour(): TRUE iff some configured peak window holds the time
is_peak_hour(cfg, t) ==
    \E i \in 1..Len(cfg.tariff.peak_hours) :
        in_peak_period(cfg.tariff.peak_hours[i], time_of_day(t))

\* The comparison of one off-peak window:
\*   start <= current_time or current_time <= end
in_off_peak_period(period, current_time) ==
    \/ strptime_HM(period.start) <= current_time
    \/ current_time <= strptime_HM(period.end)

\* is_off_peak_hour()
is_off_peak_hour(cfg, t) ==
    \E i \in 1..Len(cfg.tariff.off_peak_hours) :
        in_off_peak_period(cfg.tariff.off_peak_hours[i], time_of_day(t))

\* is_daytime(): 6 <= hour <= 18
is_daytime(t) == 6 <= hour_of(t) /\ hour_of(t) <= 18

----------------------------------------------------------------------------
(* The state the handlers of EnergyManagementSystem read and write, as one *)
(* record, so that a handler is a function from state to state.            *)

Cur ==
    [current_readings |-> current_readings,
     consumption_history |-> consumption_history,
     energy_readings |-> energy_readings,
     occupancy_sensors |-> occupancy_sensors,
     occupancy_data |-> occupancy_data,
     weather_data |-> weather_data,
     optimization_logs |-> optimization_logs,
     optimization_schedule |-> optimization_schedule,
     published |-> published,
     failed_publishes |-> failed_publishes,
     log |-> {},
     is_peak |-> is_peak,
     is_off_peak |-> is_off_peak,
     checked_at |-> checked_at,
     raised |-> FALSE]

Commit(s) ==
    /\ current_readings' = s.current_readings
    /\ consumption_history' = s.consumption_history
    /\ energy_readings' = s.energy_readings
    /\ occupancy_sensors' = s.occupancy_sensors
    /\ occupancy_data' = s.occupancy_data
    /\ weather_data' = s.weather_data
    /\ optimization_logs' = s.optimization_logs
    /\ optimization_schedule' = s.optimization_schedule
    /\ published' = s.published
    /\ failed_publishes' = s.failed_publishes
    /\ log' = s.log
    /\ is_peak' = s.is_peak
    /\ is_off_peak' = s.is_off_peak
    /\ checked_at' = s.checked_at
    /\ raised' = s.raised

\* self.logger.<level>(line)
Logged(s, line) == [s EXCEPT !.log = @ \cup {line}]

\* Device ids that end with '_light' / '_fan', or contain 'air_conditioner'
LightIds == {"hall_light", "kitchen_light", "living_room_light",
             "bedroom_light"}
FanIds == {"hall_fan", "kitchen_fan", "living_room_fan", "bedroom_fan"}
AirConditionerIds == {"air_conditioner"}

----------------------------------------------------------------------------
(* Device control and the optimization log *)

\* control_device(device_id, state): one publish on the device_control
\* topic; when the publish raises, the except clause logs the error and the
\* method returns.
control_device(s, device_id, state) ==
    LET command_data == [topic |-> "energy/control",
                         device_id |-> device_id,
                         command |-> IF state THEN "on" ELSE "off",
                         timestamp |-> now,
                         source |-> "energy_management"]
    IN  IF publish_raises
        THEN Logged([s EXCEPT !.failed_publishes = Append(@, command_data)],
                    "Device control error")
        ELSE Logged([s EXCEPT !.published = Append(@, command_data)],
                    "Device control")

\* log_optimization(optimization_type, device_id, description)
log_optimization(s, optimization_type, device_id, description) ==
    Logged([s EXCEPT !.optimization_logs =
                Append(@, [optimization_type |-> optimization_type,
                           devices_affected |-> device_id,
                           estimated_savings |-> 0])],
           "Optimization logged")

----------------------------------------------------------------------------
(* Load balancing, cost efficiency, smart scheduling *)

\* (variant: the trigger level itself included)
load_above_trigger_inclusive(current_total_load, max_safe_load) ==
    current_total_load * 10 >= max_safe_load * 8

\* current_total_load > max_safe_load * 0.8
load_above_trigger(current_total_load, max_safe_load) ==
    current_total_load * 10 > max_safe_load * 8

\* (variant: the rule without its try/except, the AttributeError escaping)
optimize_load_balancing_unguarded(s) ==
    LET current_total_load == total_power(s.current_readings)
        max_safe_load == config.thresholds.high_usage_alert
    IN  IF load_above_trigger(current_total_load, max_safe_load)
        THEN [Logged(s, "High load detected") EXCEPT !.raised = TRUE]
        ELSE s

\* optimize_load_balancing(): above the trigger level it logs the high load
\* and calls self.get_non_essential_devices(), which the class does not
\* define; the AttributeError is caught by the method's except clause, so
\* the sort, the device loop, control_device and
\* schedule_device_restoration are never reached.
optimize_load_balancing(s) ==
    LET current_total_load == total_power(s.current_readings)
        max_safe_load == config.thresholds.high_usage_alert
    IN  IF load_above_trigger(current_total_load, max_safe_load)
        THEN Logged(Logged(s, "High load detected"),
                    "Load balancing optimization error")
        ELSE s

\* not device.get('always_on', False) and device['priority'] >= 3
is_deferrable(device) ==
    /\ ~ Get(device, "always_on", FALSE)
    /\ device.priority >= 3

\* optimize_cost_efficiency(): in a peak window it walks the appliances; for
\* the first deferrable one it calls self.is_device_on(), which the class
\* does not define (AttributeError, caught).  In an off-peak window it calls
\* self.run_deferred_appliances(), not defined either.
optimize_cost_efficiency(s) ==
    LET peak == is_peak_hour(config, now)
        off_peak == is_off_peak_hour(config, now)
        s1 == [s EXCEPT !.is_peak = peak, !.is_off_peak = off_peak,
                        !.checked_at = now]
        appliances == config.devices.appliances
    IN  IF peak
        THEN IF \E i \in 1..Len(appliances) : is_deferrable(appliances[i])
             THEN Logged(Logged(s1, "Peak hours detected"),
                         "Cost efficiency optimization error")
             ELSE Logged(s1, "Peak hours detected")
        ELSE IF off_peak
        THEN Logged(Logged(s1, "Off-peak hours detected"),
                    "Cost efficiency optimization error")
        ELSE s1

\* predict_energy_consumption(24), as far as it gets: the lookup
\* self.ml_models['consumption_predictor'] raises KeyError on the empty
\* dict (caught, returns None); a None model returns None as well.
predict_energy_consumption(s) ==
    IF "consumption_predictor" \notin DOMAIN ml_models
    THEN Logged(s, "Energy prediction error")
    ELSE s

\* smart_scheduling(): returns at once when there are no predictions
smart_scheduling(s) == predict_energy_consumption(s)

\* (variant: the trigger of the load-balancing rule used here as well)
reading_triggers_load_balancing_at_trigger(total, high_usage_alert) ==
    total * 10 > high_usage_alert * 8

\* total_power > self.config['thresholds']['high_usage_alert']
reading_triggers_load_balancing(total, high_usage_alert) ==
    total > high_usage_alert

\* check_optimization_triggers()
check_optimization_triggers(s) ==
    LET total == total_power(s.current_readings)
        s1 == IF reading_triggers_load_balancing(
                     total, config.thresholds.high_usage_alert)
              THEN optimize_load_balancing(s)
              ELSE s
    IN  IF is_peak_hour(config, now)
        THEN optimize_cost_efficiency(s1)
        ELSE s1

\* run_optimization_cycle(): the three rules in turn inside one try; an
\* exception that leaves a rule skips the rest and is logged by the except
\* clause of the cycle.
run_optimization_cycle(s) ==
    LET s1 == Logged(s, "Starting optimization cycle")
        balanced == optimize_load_balancing(s1)
        costed == IF balanced.raised THEN balanced
                  ELSE optimize_cost_efficiency(balanced)
        scheduled == IF costed.raised THEN costed
                     ELSE smart_scheduling(costed)
        s2 == IF auto_optimization_enabled THEN scheduled ELSE s1
    IN  IF s2.raised
        THEN Logged([s2 EXCEPT !.raised = FALSE], "Optimization cycle error")
        ELSE Logged(s2, "Optimization cycle completed")

----------------------------------------------------------------------------
(* Occupancy- and weather-based rules *)

\* get_hourly_rate(hour): the rate of the tariff period the present time
\* falls in; the hour passed in is not consulted
get_hourly_rate(hour) ==
    IF is_peak_hour(config, now) THEN config.tariff.peak_rate
    ELSE IF is_off_peak_hour(config, now) THEN config.tariff.off_peak_rate
    ELSE config.tariff.normal_rate

\* a value or None, as a sequence of at most one element
Some(value) == <<value>>
Nothing == << >>

\* find_optimal_time_slot: total_cost of the slice predictions[i:i+duration]
\* (index i counts from 0; the slice stops at the end of the list); a cost is
\* kept as 1000 * 100 times the amount, which is exact
RECURSIVE slot_cost(_, _, _, _)
slot_cost(predictions, device_power, i, duration_hours) ==
    IF duration_hours <= 0 \/ i + 1 > Len(predictions)
    THEN 0
    ELSE (predictions[i + 1].predicted_load + device_power)
             * get_hourly_rate(predictions[i + 1].timestamp)
         + slot_cost(predictions, device_power, i + 1, duration_hours - 1)

\* find_optimal_time_slot: the loop "for i in range(n)" from index i on,
\* with min_cost (Nothing for float('inf')) and optimal_time (best) so far
RECURSIVE slot_loop(_, _, _, _, _, _, _)
slot_loop(predictions, device_power, duration_hours, i, n, min_cost, best) ==
    IF i >= n
    THEN best
    ELSE LET total_cost == slot_cost(predictions, device_power, i,
                                     duration_hours)
         IN  IF min_cost = Nothing \/ total_cost < min_cost[1]
             THEN slot_loop(predictions, device_power, duration_hours, i + 1,
                            n, Some(total_cost),
                            Some(predictions[i + 1].timestamp))
             ELSE slot_loop(predictions, device_power, duration_hours, i + 1,
                            n, min_cost, best)

\* find_optimal_time_slot(predictions, device_power, duration_hours)
find_optimal_time_slot(predictions, device_power, duration_hours) ==
    slot_loop(predictions, device_power, duration_hours, 0,
              Len(predictions) - duration_hours, Nothing, Nothing)

\* get_devices_in_room(room): lights, fans, appliances in dict order
get_devices_in_room(room) ==
    LET all == config.devices.lights \o config.devices.fans
                   \o config.devices.appliances
        InRoom(device) == Get(device, "room", None) = room
    IN  SelectSeq(all, InRoom)

\* (variant: the occupancy count ignored)
occupied_motion_only(occupancy) ==
    Get(occupancy, "motion_detected", FALSE)

\* is_room_occupied(room), and the same expression in
\* optimize_based_on_occupancy
occupied(occupancy) ==
    \/ Get(occupancy, "motion_detected", FALSE)
    \/ Get(occupancy, "occupancy_count", 0) > 0

is_room_occupied(s, room) == occupied(Get(s.occupancy_sensors, room, EmptyDict))

\* timedelta.seconds of a non-negative difference
timedelta_seconds(d) == d % SECONDS_PER_DAY

RECURSIVE occupancy_loop(_, _, _, _)
\* the loop 'for device in room_devices' of optimize_based_on_occupancy
occupancy_loop(s, devices, occupancy, is_occupied) ==
    IF devices = << >> THEN s
    ELSE LET device == Head(devices)
             s1 == IF device.id \in LightIds
                   THEN IF ~ is_occupied /\ ~ is_peak_hour(config, now)
                        THEN log_optimization(
                                 control_device(s, device.id, FALSE),
                                 "occupancy_based", device.id, "light_auto_off")
                        ELSE s
                   ELSE IF device.id \in FanIds
                   THEN IF is_occupied
                        THEN LET room_temp == Get(occupancy, "temperature", 25)
                             IN  IF room_temp > 28
                                 THEN control_device(s, device.id, TRUE)
                                 ELSE IF room_temp < 22
                                 THEN control_device(s, device.id, FALSE)
                                 ELSE s
                        ELSE LET last_activity ==
                                     Get(occupancy, "timestamp", now)
                             IN  IF timedelta_seconds(now - last_activity) > 600
                                 THEN log_optimization(
                                          control_device(s, device.id, FALSE),
                                          "occupancy_based", device.id,
                                          "fan_auto_off")
                                 ELSE s
                   ELSE s
         IN  occupancy_loop(s1, Tail(devices), occupancy, is_occupied)

\* optimize_based_on_occupancy(room)
optimize_based_on_occupancy(s, room) ==
    LET occupancy == Get(s.occupancy_sensors, room, EmptyDict)
    IN  occupancy_loop(s, get_devices_in_room(room), occupancy,
                       occupied(occupancy))

RECURSIVE unoccupied_off_loop(_, _, _)
\* 'for device in lights/fans: if not is_room_occupied(room): off' of
\* optimize_based_on_weather
unoccupied_off_loop(s, devices, description) ==
    IF devices = << >> THEN s
    ELSE LET device == Head(devices)
             s1 == IF ~ is_room_occupied(s, device.room)
                   THEN log_optimization(
                            control_device(s, device.id, FALSE),
                            "weather_based", device.id, description)
                   ELSE s
         IN  unoccupied_off_loop(s1, Tail(devices), description)

RECURSIVE predictive_cooling_loop(_, _)
\* 'for device in appliances: if air_conditioner ...' of
\* optimize_based_on_weather
predictive_cooling_loop(s, devices) ==
    IF devices = << >> THEN s
    ELSE LET device == Head(devices)
             s1 == IF /\ device.id \in AirConditionerIds
                      /\ ~ is_peak_hour(config, now)
                      /\ is_room_occupied(s, device.room)
                   THEN log_optimization(
                            control_device(s, device.id, TRUE),
                            "weather_based", device.id, "predictive_cooling")
                   ELSE s
         IN  predictive_cooling_loop(s1, Tail(devices))

\* optimize_based_on_weather()
optimize_based_on_weather(s) ==
    IF s.weather_data = EmptyDict THEN s
    ELSE LET outdoor_temp == Get(s.weather_data, "temperature", 25)
             cloud_cover == Get(s.weather_data, "cloud_cover", 50)
             s1 == IF cloud_cover < 30 /\ is_daytime(now)
                   THEN unoccupied_off_loop(s, config.devices.lights,
                                            "natural_light_available")
                   ELSE s
         IN  IF outdoor_temp < 20
             THEN unoccupied_off_loop(s1, config.devices.fans,
                                      "cool_weather_optimization")
             ELSE IF outdoor_temp > 35
             THEN predictive_cooling_loop(s1, config.devices.appliances)
             ELSE s1

----------------------------------------------------------------------------
(* MQTT payloads.  A payload is described by what json.loads makes of it:  *)
(* kind "invalid" (json.loads raises), "nonobject" (a list, number, string,*)
(* null: a value without .get) or "object" (a dict, held in .data).        *)

\* (variant: any decoded value treated as a dict)
is_dict_any(message) == TRUE

\* whether message.get(...) works: only a dict has .get
is_dict(message) == message.kind = "object"

\* whether json.loads(msg.payload.decode()) returns
json_loads_ok(payload) == payload.kind # "invalid"

----------------------------------------------------------------------------
(* Message handlers of EnergyManagementSystem *)

\* number of energy_readings rows of a device (at most 100 are fetched)
historical_data_len(s, device_id) ==
    Cardinality({i \in 1..Len(s.energy_readings) :
                     s.energy_readings[i].device_id = device_id})

\* abs() of a score; scores are counted in hundredths
abs(x) == IF x < 0 THEN 0 - x ELSE x

\* 'medium' if abs(anomaly_score) < 0.5 else 'high'
severity_of(anomaly_score) ==
    IF abs(anomaly_score) < 50 THEN "medium" ELSE "high"

\* handle_energy_anomaly(device_id, power, anomaly_score): publishes the
\* alert; for a score beyond 0.7 it then calls
\* self.emergency_device_shutdown(), which the class does not define
\* (AttributeError, caught by the method's except clause, as is a publish
\* that raises).
handle_energy_anomaly(s, device_id, power, anomaly_score) ==
    LET alert_data == [topic |-> "energy/alerts",
                       type |-> "ENERGY_ANOMALY",
                       device_id |-> device_id,
                       power_consumption |-> power,
                       anomaly_score |-> anomaly_score,
                       timestamp |-> now,
                       severity |-> severity_of(anomaly_score)]
        s1 == Logged(s, "Energy anomaly detected")
    IN  IF publish_raises
        THEN Logged(s1, "Error handling energy anomaly")
        ELSE LET s2 == [s1 EXCEPT !.published = Append(@, alert_data)]
             IN  IF abs(anomaly_score) > 70
                 THEN Logged(s2, "Error handling energy anomaly")
                 ELSE s2

\* detect_energy_anomalies(device_id, current_power): the lookup of
\* 'anomaly_detector' raises KeyError on the empty dict; a None model
\* returns; with fewer than 10 rows it returns; otherwise a model that was
\* never fitted raises NotFittedError in decision_function, and a fitted
\* one gives its verdict.
detect_energy_anomalies(s, device_id, current_power) ==
    IF "anomaly_detector" \notin DOMAIN ml_models
    THEN Logged(s, "Anomaly detection error")
    ELSE IF ml_models["anomaly_detector"] = None
    THEN s
    ELSE IF historical_data_len(s, device_id) < 10
    THEN s
    ELSE IF ml_models["anomaly_detector"] # "fitted"
    THEN Logged(s, "Anomaly detection error")
    ELSE IF detector.is_anomaly
    THEN handle_energy_anomaly(s, device_id, current_power,
                               detector.anomaly_score)
    ELSE s

\* self.current_readings[device_id] = {...}
store_reading(readings, device_id, reading) ==
    Put(readings, device_id, reading)

\* process_energy_reading(data)
process_energy_reading(s, message) ==
    IF ~ is_dict(message)
    THEN Logged(s, "Error processing energy reading")
    ELSE LET data == message.data
             timestamp == Get(data, "timestamp", now)
             device_id == Get(data, "device_id", None)
             power == Get(data, "power_consumption", 0)
             voltage == Get(data, "voltage", 0)
             current == Get(data, "current", 0)
             s1 == [s EXCEPT
                      !.energy_readings =
                          Append(@, [timestamp |-> timestamp,
                                     device_id |-> device_id,
                                     power_consumption |-> power,
                                     voltage |-> voltage,
                                     current |-> current]),
                      !.current_readings =
                          store_reading(@, device_id,
                                        [timestamp |-> timestamp,
                                         power |-> power,
                                         voltage |-> voltage,
                                         current |-> current]),
                      !.consumption_history =
                          DequeAppend(@, [timestamp |-> timestamp,
                                          device_id |-> device_id,
                                          power |-> power],
                                      HISTORY_MAXLEN)]
             s2 == detect_energy_anomalies(s1, device_id, power)
         IN  IF auto_optimization_enabled
             THEN check_optimization_triggers(s2)
             ELSE s2

\* process_device_status(data): every list item is handed to
\* self.update_device_status, which the class does not define
\* (AttributeError, caught by the method's except clause).
process_device_status(s, message) ==
    IF ~ is_dict(message)
    THEN Logged(s, "Error processing device status")
    ELSE LET devices == Get(message.data, "devices", EmptyDict)
         IN  IF \E device_type \in DOMAIN devices :
                    Len(devices[device_type]) > 0
             THEN Logged(s, "Error processing device status")
             ELSE s

\* process_occupancy_data(data)
process_occupancy_data(s, message) ==
    IF ~ is_dict(message)
    THEN Logged(s, "Error processing occupancy data")
    ELSE LET data == message.data
             room == Get(data, "room", None)
             occupancy_count == Get(data, "occupancy_count", 0)
             motion_detected == Get(data, "motion_detected", FALSE)
             temperature == Get(data, "temperature", 0)
             s1 == [s EXCEPT
                      !.occupancy_sensors =
                          Put(@, room,
                              [occupancy_count |-> occupancy_count,
                               motion_detected |-> motion_detected,
                               temperature |-> temperature,
                               timestamp |-> now]),
                      !.occupancy_data =
                          Append(@, [room |-> room,
                                     occupancy_count |-> occupancy_count,
                                     motion_detected |-> motion_detected,
                                     temperature |-> temperature])]
         IN  optimize_based_on_occupancy(s1, room)

\* process_weather_data(data)
process_weather_data(s, message) ==
    IF ~ is_dict(message)
    THEN Logged(s, "Error processing weather data")
    ELSE LET data == message.data
             s1 == [s EXCEPT
                      !.weather_data =
                          [temperature |-> Get(data, "temperature", 0),
                           humidity |-> Get(data, "humidity", 0),
                           cloud_cover |-> Get(data, "cloud_cover", 0),
                           wind_speed |-> Get(data, "wind_speed", 0),
                           timestamp |-> now]]
         IN  optimize_based_on_weather(s1)

EnergyDataTopic == "energy/consumption"
OccupancyTopics == {"sensors/hall/occupancy"}   \* topics with 'occupancy' in them

\* on_mqtt_message(client, userdata, msg) of EnergyManagementSystem
on_mqtt_message(s, msg) ==
    IF ~ json_loads_ok(msg.payload)
    THEN Logged(s, "MQTT message processing error")
    ELSE LET message == msg.payload
         IN  IF msg.topic = EnergyDataTopic
             THEN process_energy_reading(s, message)
             ELSE IF msg.topic = "smarthome/status"
             THEN process_device_status(s, message)
             ELSE IF msg.topic \in OccupancyTopics
             THEN process_occupancy_data(s, message)
             ELSE IF msg.topic = "weather/current"
             THEN process_weather_data(s, message)
             ELSE s

----------------------------------------------------------------------------
(* SecuritySystem: the MQTT command callback *)

SecCur ==
    [system_armed |-> system_armed,
     intrusion_detected |-> intrusion_detected,
     security_events |-> security_events,
     sec_published |-> sec_published,
     access_logs |-> access_logs,
     intrusion_attempts |-> intrusion_attempts,
     log |-> {},
     raised |-> FALSE]

SecCommit(s) ==
    /\ system_armed' = s.system_armed
    /\ intrusion_detected' = s.intrusion_detected
    /\ security_events' = s.security_events
    /\ sec_published' = s.sec_published
    /\ access_logs' = s.access_logs
    /\ intrusion_attempts' = s.intrusion_attempts
    /\ log' = s.log
    /\ raised' = s.raised

\* log_security_event(event_type, description, location, severity=1)
log_security_event(s, event_type, location, severity) ==
    [s EXCEPT !.security_events =
                  Append(@, [event_type |-> event_type,
                             location |-> location,
                             severity |-> severity]),
              !.sec_published =
                  Append(@, [topic |-> "security/alerts",
                             type |-> event_type,
                             location |-> location,
                             severity |-> severity,
                             timestamp |-> now])]

\* arm_system()
arm_system(s) ==
    Logged(log_security_event([s EXCEPT !.system_armed = TRUE],
                              "SYSTEM_ARMED", "system", 1),
           "Security system ARMED")

\* disarm_system()
disarm_system(s) ==
    Logged(log_security_event([s EXCEPT !.system_armed = FALSE,
                                        !.intrusion_detected = FALSE],
                              "SYSTEM_DISARMED", "system", 1),
           "Security system DISARMED")

\* The command types whose handler (add_user_from_command, delete_user,
\* emergency_lockdown, send_system_status) the class does not define: the
\* call raises AttributeError, which on_mqtt_message catches.
UndefinedHandlerTypes ==
    {"ADD_USER", "DELETE_USER", "EMERGENCY_LOCKDOWN", "GET_STATUS"}

\* on_mqtt_message + handle_mqtt_command of SecuritySystem
sec_on_mqtt_message(s, msg) ==
    IF ~ json_loads_ok(msg.payload) \/ ~ is_dict(msg.payload)
    THEN Logged(s, "MQTT message processing error")
    ELSE LET cmd_type == Get(msg.payload.data, "type", None)
         IN  IF cmd_type = "ARM_SYSTEM" THEN arm_system(s)
             ELSE IF cmd_type = "DISARM_SYSTEM" THEN disarm_system(s)
             ELSE IF cmd_type \in UndefinedHandlerTypes
             THEN Logged(s, "MQTT message processing error")
             ELSE s

----------------------------------------------------------------------------
(* SecuritySystem: the camera monitor *)

\* load_known_faces: SELECT id, name, face_encoding FROM users WHERE
\* is_active = 1, and an entry for every row that has an encoding
load_known_faces(rows) == rows

\* SecuritySystem.__init__: initialize_face_recognition calls
\* load_known_faces, and the "Security state" block that follows assigns
\* self.face_encodings = {}
SecuritySystem_init_face_encodings(rows) ==
    LET loaded == load_known_faces(rows)
        security_state == {}
    IN  security_state

\* face['recognized'] of detect_faces_in_frame: compare_faces finds an
\* enrolled encoding within the tolerance
recognized(face) == face \in face_encodings

\* log_access_attempt(user_id, method, location, success, confidence)
log_access_attempt(s, user_id, method, location, success) ==
    [s EXCEPT !.access_logs =
                  Append(@, [user_id |-> user_id,
                             access_method |-> method,
                             location |-> location,
                             success |-> success])]

\* trigger_alarm(): the alarm command on the commands topic
trigger_alarm(s) ==
    [s EXCEPT !.sec_published =
                  Append(@, [topic |-> "security/commands",
                             type |-> "TRIGGER_ALARM",
                             reason |-> "intrusion_detected",
                             timestamp |-> now])]

\* handle_intrusion(location, detection_method, confidence, frame)
handle_intrusion(s, location, detection_method) ==
    LET s1 == [s EXCEPT !.intrusion_detected = TRUE,
                        !.intrusion_attempts =
                            Append(@, [location |-> location,
                                       detection_method |-> detection_method])]
        s2 == log_security_event(s1, "INTRUSION_DETECTED", location, 3)
    IN  Logged(trigger_alarm(s2), "INTRUSION DETECTED")

\* (variant: an unknown face is an intrusion whether armed or not)
face_is_intrusion_when_unknown(face, armed) == ~ recognized(face)

\* the branch 'elif self.system_armed' of the face loop of monitor_camera
face_is_intrusion(face, armed) == ~ recognized(face) /\ armed

----------------------------------------------------------------------------
(* Inputs *)

NoMsg == [system |-> "none", topic |-> "", kind |-> "none", data |-> EmptyDict]

\* the detector asked about an ordinary reading: predict gives 1 (inlier)
NoVerdict == [is_anomaly |-> FALSE, anomaly_score |-> 10]

\* no frame read yet
NoFrame == [face |-> "none", suspicious |-> FALSE]

ReadingDevices == {"A", "B"}
Powers == {500, 800, 1200}
MsgTimestamps == {1, 2}

Object(data) == [kind |-> "object", data |-> data]
InvalidPayload == [kind |-> "invalid", data |-> EmptyDict]
NonObjectPayload == [kind |-> "nonobject", data |-> EmptyDict]
BadPayloads == {InvalidPayload, NonObjectPayload}

ReadingData ==
    {[device_id |-> d, power_consumption |-> p, timestamp |-> t] :
         d \in ReadingDevices, p \in Powers, t \in MsgTimestamps}
    \cup {[device_id |-> "A", power_consumption |-> 500]}

\* readings without the required device_id
ReadingDataNoDevice == {[power_consumption |-> 500, timestamp |-> 1]}

StatusData ==
    {[devices |-> [leds |-> <<1, 0>>]], [devices |-> [leds |-> << >>]]}

OccupancyData ==
    {[room |-> "hall", occupancy_count |-> c, motion_detected |-> m,
      temperature |-> t] :
         c \in {0, 1}, m \in BOOLEAN, t \in {20, 30}}
    \cup {[occupancy_count |-> 0, motion_detected |-> FALSE]}

WeatherData ==
    {[temperature |-> t, cloud_cover |-> c] : t \in {15, 40}, c \in {10, 50}}

EnergyTopics ==
    {EnergyDataTopic, "smarthome/status", "sensors/hall/occupancy",
     "weather/current"}

\* anomaly scores (decision_function), in hundredths
AnomalyScores == {-80, -70, -50, -49, 80}

\* what the detector may answer for a reading
Verdicts ==
    {NoVerdict, [is_anomaly |-> TRUE, anomaly_score |-> -49],
     [is_anomaly |-> TRUE, anomaly_score |-> -80]}

\* rows the energy_readings table holds from earlier runs of the program:
\* ten readings of device A
StoredReadings ==
    [i \in 1..10 |-> [timestamp |-> 0, device_id |-> "A",
                      power_consumption |-> 500, voltage |-> 0,
                      current |-> 0]]

\* the hourly predictions handed to find_optimal_time_slot: a load for each
\* of the next hours, hour by hour
MaxPredictions == 3
PredictedLoads == {100, 500}
PredictionLists ==
    UNION {{[i \in 1..n |-> [timestamp |-> i, predicted_load |-> loads[i]]] :
                loads \in [1..n -> PredictedLoads]} :
           n \in 0..MaxPredictions}
\* device.get('duration', 2), and a one-hour appliance
Durations == {1, 2}
\* the power_rating of the appliance to schedule
SlotDevicePower == 1500

\* who a frame may show: nobody, the resident, a stranger
Persons == {"resident", "stranger"}
Frames == [face : {"none"} \cup Persons, suspicious : BOOLEAN]

\* the first n readings handled earlier in this run: one of device A, then
\* readings of device B only
EarlierReadings(n) ==
    [i \in 1..n |-> [timestamp |-> 0,
                     device_id |-> IF i = 1 THEN "A" ELSE "B",
                     power_consumption |-> 500]]

\* TRIGGER_ALARM is what trigger_alarm publishes on security/commands, the
\* topic the system itself is subscribed to
SecurityTypes ==
    {"ARM_SYSTEM", "DISARM_SYSTEM", "GET_STATUS", "PING", "TRIGGER_ALARM"}

ClockTimes == {HMS(12, 0, 0), HMS(20, 0, 0), HMS(23, 0, 0)}

TariffTimes ==
    {HMS(0, 0, 0), HMS(0, 59, 59), HMS(1, 0, 0), HMS(5, 0, 0), HMS(5, 0, 1),
     HMS(6, 0, 0), HMS(6, 0, 1), HMS(12, 0, 0), HMS(17, 59, 59),
     HMS(18, 0, 0), HMS(20, 0, 0), HMS(21, 59, 59), HMS(22, 0, 0),
     HMS(22, 0, 1), HMS(23, 59, 59)}

----------------------------------------------------------------------------
(* Actions *)

SecurityVars == <<system_armed, intrusion_detected, security_events,
                  sec_published, access_logs, intrusion_attempts>>
EnergyVars == <<current_readings, consumption_history, energy_readings,
                occupancy_sensors, occupancy_data, weather_data,
                optimization_logs, optimization_schedule, published,
                failed_publishes, is_peak, is_off_peak, checked_at>>
FixedVars == <<config, ml_models, auto_optimization_enabled>>
\* what the surroundings decide: the broker connection and the detector
EnvVars == <<publish_raises, detector>>
\* the main thread of EnergyManagementSystem
RunVars == <<run_state, scheduled_jobs>>
\* the monitor_camera thread and the enrolled faces
CameraVars == <<face_encodings, users, cam_pc, cam_frame, previous_frame,
                frameCount>>
\* the CCTVSystem object, its threads and its tables
CctvVars == <<main_pc, cctv_running, cctv_cameras, cctv_connected,
              cctv_published, record_threads, threadCount, recordings,
              cctv_events, alert_queue, alertCount, email_alerts,
              push_notifications, cmdCount>>

\* the MQTT thread delivers msg to EnergyManagementSystem.on_mqtt_message;
\* the thread is stopped by cleanup()
DeliverEnergy(msg) ==
    /\ msgCount < MaxMsgs
    /\ run_state = "constructed"
    /\ Commit(on_mqtt_message(Cur, msg))
    /\ lastMsg' = [system |-> "energy", topic |-> msg.topic,
                   kind |-> msg.payload.kind, data |-> msg.payload.data]
    /\ msgCount' = msgCount + 1
    /\ UNCHANGED <<FixedVars, CctvVars,
                   SecurityVars, EnvVars, RunVars, CameraVars,
                   now, cycleCount>>

EnergyReadingMsg ==
    \E data \in ReadingData \cup ReadingDataNoDevice :
        DeliverEnergy([topic |-> EnergyDataTopic, payload |-> Object(data)])

DeviceStatusMsg ==
    \E data \in StatusData :
        DeliverEnergy([topic |-> "smarthome/status", payload |-> Object(data)])

OccupancyMsg ==
    \E data \in OccupancyData :
        DeliverEnergy([topic |-> "sensors/hall/occupancy",
                       payload |-> Object(data)])

WeatherMsg ==
    \E data \in WeatherData :
        DeliverEnergy([topic |-> "weather/current", payload |-> Object(data)])

MalformedEnergyMsg ==
    \E topic \in EnergyTopics, payload \in BadPayloads :
        DeliverEnergy([topic |-> topic, payload |-> payload])

\* the MQTT thread delivers msg to SecuritySystem.on_mqtt_message
DeliverSecurity(msg) ==
    /\ msgCount < MaxMsgs
    /\ SecCommit(sec_on_mqtt_message(SecCur, msg))
    /\ lastMsg' = [system |-> "security", topic |-> msg.topic,
                   kind |-> msg.payload.kind, data |-> msg.payload.data]
    /\ msgCount' = msgCount + 1
    /\ UNCHANGED <<FixedVars, CctvVars,
                   EnergyVars, EnvVars, RunVars, CameraVars,
                   now, cycleCount>>

SecurityCommandMsg ==
    \E type \in SecurityTypes :
        DeliverSecurity([topic |-> "security/commands",
                         payload |-> Object([type |-> type])])

MalformedSecurityMsg ==
    \E payload \in BadPayloads :
        DeliverSecurity([topic |-> "security/commands", payload |-> payload])

\* run() of SecuritySystem: start_monitoring starts the monitor_camera
\* thread of camera 0
StartMonitoring ==
    /\ cam_pc = "not_started"
    /\ cam_pc' = "read"
    /\ UNCHANGED <<FixedVars, CctvVars,
                   EnergyVars, SecurityVars, EnvVars, RunVars,
                   face_encodings, users, cam_frame, previous_frame,
                   frameCount,
                   now, log, lastMsg, msgCount, cycleCount, raised>>

\* a call of add_user(name, image_path) with a picture of the resident: the
\* row is inserted and the runtime table updated (a user id is modelled by
\* the person it belongs to)
AddUser ==
    /\ "resident" \notin face_encodings
    /\ users' = users \cup {"resident"}
    /\ face_encodings' = face_encodings \cup {"resident"}
    /\ UNCHANGED <<FixedVars, CctvVars,
                   EnergyVars, SecurityVars, EnvVars, RunVars,
                   cam_pc, cam_frame, previous_frame, frameCount,
                   now, log, lastMsg, msgCount, cycleCount, raised>>

\* monitor_camera: cap.read(), detect_faces_in_frame and the test of the
\* face found; the call of handle_intrusion is the thread's next step
CameraReadFrame ==
    \E frame \in Frames :
        /\ cam_pc = "read"
        /\ frameCount < MaxFrames
        /\ cam_frame' = frame
        /\ frameCount' = frameCount + 1
        /\ IF frame.face = "none"
           THEN SecCommit(SecCur) /\ cam_pc' = "motion"
           ELSE IF recognized(frame.face)
           THEN /\ SecCommit(log_access_attempt(
                        SecCur, frame.face, "face_recognition", "camera_0",
                        TRUE))
                /\ cam_pc' = "motion"
           ELSE IF face_is_intrusion(frame.face, system_armed)
           THEN SecCommit(SecCur) /\ cam_pc' = "handle_intrusion_face"
           ELSE SecCommit(SecCur) /\ cam_pc' = "motion"
        /\ UNCHANGED <<FixedVars, CctvVars, EnergyVars, EnvVars, RunVars,
                       face_encodings, users, previous_frame, now, lastMsg,
                       msgCount, cycleCount>>

\* monitor_camera: the motion test on the frame, after the faces
CameraMotion ==
    /\ cam_pc = "motion"
    /\ IF previous_frame /\ cam_frame.suspicious /\ system_armed
       THEN cam_pc' = "handle_intrusion_motion" /\ UNCHANGED previous_frame
       ELSE cam_pc' = "read" /\ previous_frame' = TRUE
    /\ UNCHANGED <<FixedVars, CctvVars,
                   EnergyVars, SecurityVars, EnvVars, RunVars,
                   face_encodings, users, cam_frame, frameCount,
                   now, log, lastMsg, msgCount, cycleCount, raised>>

\* monitor_camera: the call of handle_intrusion it has decided on
CameraHandleIntrusion ==
    /\ cam_pc \in {"handle_intrusion_face", "handle_intrusion_motion"}
    /\ IF cam_pc = "handle_intrusion_face"
       THEN /\ SecCommit(handle_intrusion(SecCur, "camera_0", "unknown_face"))
            /\ cam_pc' = "motion"
            /\ UNCHANGED previous_frame
       ELSE /\ SecCommit(handle_intrusion(SecCur, "camera_0",
                                          "suspicious_motion"))
            /\ cam_pc' = "read"
            /\ previous_frame' = TRUE
    /\ UNCHANGED <<FixedVars, CctvVars,
                   EnergyVars, EnvVars, RunVars, face_encodings,
                   users, cam_frame, frameCount, now, lastMsg, msgCount,
                   cycleCount>>

\* a call of find_optimal_time_slot(predictions, device_power,
\* duration_hours); what it returned is kept with the call
FindOptimalTimeSlotCall ==
    \E predictions \in PredictionLists, duration_hours \in Durations :
        /\ msgCount < MaxMsgs
        /\ run_state = "constructed"
        /\ lastMsg' = [system |-> "energy", topic |-> "find_optimal_time_slot",
                       kind |-> "call",
                       data |-> [predictions |-> predictions,
                                 device_power |-> SlotDevicePower,
                                 duration_hours |-> duration_hours,
                                 returned |-> find_optimal_time_slot(
                                     predictions, SlotDevicePower,
                                     duration_hours)]]
        /\ msgCount' = msgCount + 1
        /\ UNCHANGED <<FixedVars, CctvVars,
                       EnergyVars, SecurityVars, EnvVars, RunVars,
                       CameraVars, now, log, cycleCount, raised>>

\* a call of handle_energy_anomaly(device_id, power, anomaly_score)
HandleEnergyAnomalyCall ==
    \E anomaly_score \in AnomalyScores :
        /\ msgCount < MaxMsgs
        /\ run_state = "constructed"
        /\ Commit(handle_energy_anomaly(Cur, "A", 1200, anomaly_score))
        /\ lastMsg' = [system |-> "energy", topic |-> "handle_energy_anomaly",
                       kind |-> "call",
                       data |-> [device_id |-> "A", power |-> 1200,
                                 anomaly_score |-> anomaly_score]]
        /\ msgCount' = msgCount + 1
        /\ UNCHANGED <<FixedVars, CctvVars,
                       SecurityVars, EnvVars, RunVars, CameraVars,
                       now, cycleCount>>

\* the detector's answer for the next reading: IsolationForest.predict and
\* decision_function, were they asked
DetectorVerdict ==
    /\ \E verdict \in Verdicts : verdict # detector /\ detector' = verdict
    /\ UNCHANGED <<FixedVars, CctvVars,
                   EnergyVars, SecurityVars, RunVars, CameraVars,
                   publish_raises, now, log, lastMsg, msgCount, cycleCount,
                   raised>>

\* a call of run_optimization_cycle()
RunOptimizationCycle ==
    /\ cycleCount < MaxCycles
    /\ Commit(run_optimization_cycle(Cur))
    /\ cycleCount' = cycleCount + 1
    /\ UNCHANGED <<FixedVars, CctvVars,
                   SecurityVars, EnvVars, RunVars, CameraVars,
                   now, lastMsg, msgCount>>

\* The methods run() hands to the schedule module, in the order of its
\* three schedule...do(self.<method>) statements
ScheduledMethods ==
    <<"run_optimization_cycle", "generate_hourly_summary",
      "generate_daily_report">>

\* those of them that EnergyManagementSystem defines
DefinedMethods == {"run_optimization_cycle"}

\* the jobs registered before the first statement that names an undefined
\* method raises AttributeError
RECURSIVE registered_jobs(_)
registered_jobs(methods) ==
    IF methods = << >> \/ Head(methods) \notin DefinedMethods
    THEN {}
    ELSE {Head(methods)} \cup registered_jobs(Tail(methods))

\* whether run() gets as far as its 'while True' loop
loop_entered == registered_jobs(ScheduledMethods) = Range(ScheduledMethods)

\* run() of EnergyManagementSystem, the whole call when the loop is not
\* entered: the registration of the jobs, the AttributeError caught by
\* 'except Exception', and cleanup() in the finally clause, which closes
\* the database and stops the MQTT thread.
Run ==
    /\ run_state = "constructed"
    /\ ~ loop_entered
    /\ scheduled_jobs' = registered_jobs(ScheduledMethods)
    /\ run_state' = "returned"
    /\ log' = {"Energy Management System started",
               "Energy Management System error",
               "Energy Management System cleanup completed"}
    /\ raised' = FALSE
    /\ UNCHANGED <<FixedVars, CctvVars,
                   EnergyVars, SecurityVars, EnvVars, CameraVars,
                   now, lastMsg, msgCount, cycleCount>>

\* the connection to the broker is lost or comes back: from now on
\* mqtt_client.publish raises, or no longer does
BrokerConnectionChanges ==
    /\ publish_raises' = ~ publish_raises
    /\ UNCHANGED <<FixedVars, CctvVars,
                   EnergyVars, SecurityVars, RunVars, CameraVars,
                   detector, now, log, lastMsg, msgCount, cycleCount, raised>>

\* time passes
AdvanceClock(times) ==
    /\ \E t \in times : t > now /\ now' = t
    /\ UNCHANGED <<FixedVars, CctvVars,
                   EnergyVars, SecurityVars, EnvVars, RunVars,
                   CameraVars, log, lastMsg, msgCount, cycleCount, raised>>

----------------------------------------------------------------------------
(* Specifications *)

\* The fields of both objects after their __init__ has returned, the stores
\* of readings apart
InitObjects ==
    /\ ml_models = EmptyDict
    /\ auto_optimization_enabled = TRUE
    /\ occupancy_sensors = EmptyDict
    /\ occupancy_data = << >>
    /\ weather_data = EmptyDict
    /\ optimization_logs = << >>
    /\ optimization_schedule = EmptyDict
    /\ published = << >>
    /\ log = {}
    /\ is_peak = FALSE
    /\ is_off_peak = FALSE
    /\ checked_at = -1
    /\ system_armed = FALSE
    /\ intrusion_detected = FALSE
    /\ security_events = << >>
    /\ sec_published = << >>
    /\ lastMsg = NoMsg
    /\ msgCount = 0
    /\ cycleCount = 0
    /\ raised = FALSE
    /\ publish_raises = FALSE
    /\ failed_publishes = << >>
    /\ detector = NoVerdict
    /\ run_state = "constructed"
    /\ scheduled_jobs = {}
    /\ face_encodings = SecuritySystem_init_face_encodings(users)
    /\ access_logs = << >>
    /\ intrusion_attempts = << >>
    /\ cam_pc = "not_started"
    /\ cam_frame = NoFrame
    /\ previous_frame = FALSE
    /\ frameCount = 0
    /\ main_pc = "start_surveillance"
    /\ cctv_running = FALSE
    /\ cctv_cameras = EmptyDict
    /\ cctv_connected = TRUE
    /\ cctv_published = << >>
    /\ record_threads = {}
    /\ threadCount = 0
    /\ recordings = << >>
    /\ cctv_events = << >>
    /\ alert_queue = << >>
    /\ alertCount = 0
    /\ email_alerts = << >>
    /\ push_notifications = << >>
    /\ cmdCount = 0

\* The state after EnergyManagementSystem.__init__ and
\* SecuritySystem.__init__ have returned, on a fresh database
InitState ==
    /\ users = {}
    /\ InitObjects
    /\ current_readings = EmptyDict
    /\ consumption_history = << >>
    /\ energy_readings = << >>

Init ==
    /\ config \in Configs
    /\ now \in ClockTimes
    /\ InitState

\* The reading pipeline: energy readings, the periodic optimization cycle
\* and the clock.
Next ==
    \/ EnergyReadingMsg
    \/ RunOptimizationCycle
    \/ AdvanceClock(ClockTimes)

Spec == Init /\ [][Next]_vars

\* The message bus: every MQTT callback of both systems, well-formed and
\* malformed payloads on every subscribed topic.
InitBus ==
    /\ config = DefaultConfig
    /\ now \in ClockTimes
    /\ InitState

NextBus ==
    \/ EnergyReadingMsg
    \/ DeviceStatusMsg
    \/ OccupancyMsg
    \/ WeatherMsg
    \/ MalformedEnergyMsg
    \/ SecurityCommandMsg
    \/ MalformedSecurityMsg
    \/ AdvanceClock(ClockTimes)

SpecBus == InitBus /\ [][NextBus]_vars

\* The tariff-window functions on their own: any configuration, any of the
\* boundary times, and the cost-efficiency pass of an optimization cycle.
InitTariff ==
    /\ config \in Configs
    /\ now \in TariffTimes
    /\ InitState

NextTariff ==
    \/ RunOptimizationCycle
    \/ AdvanceClock(TariffTimes)

SpecTariff == InitTariff /\ [][NextTariff]_vars

\* The dispatch of device commands: the rules that call control_device
\* (occupancy and weather) while the broker connection comes and goes.
NextDispatch ==
    \/ OccupancyMsg
    \/ WeatherMsg
    \/ BrokerConnectionChanges
    \/ AdvanceClock(ClockTimes)

SpecDispatch == InitBus /\ [][NextDispatch]_vars

\* Anomaly handling: readings against a database that may hold rows of an
\* earlier run, the detector's answers, and calls of handle_energy_anomaly.
InitAnomaly ==
    /\ config = DefaultConfig
    /\ now \in ClockTimes
    /\ users = {}
    /\ InitObjects
    /\ current_readings = EmptyDict
    /\ consumption_history = << >>
    /\ energy_readings \in {<< >>, StoredReadings}

NextAnomaly ==
    \/ EnergyReadingMsg
    \/ DetectorVerdict
    \/ HandleEnergyAnomalyCall
    \/ AdvanceClock(ClockTimes)

SpecAnomaly == InitAnomaly /\ [][NextAnomaly]_vars

\* The security system with its camera monitor: commands on the MQTT
\* thread interleaved with the steps of the monitor_camera thread.
NextSecurity ==
    \/ SecurityCommandMsg
    \/ StartMonitoring
    \/ AddUser
    \/ CameraReadFrame
    \/ CameraMotion
    \/ CameraHandleIntrusion
    \/ AdvanceClock(ClockTimes)

SpecSecurity == InitBus /\ [][NextSecurity]_vars

\* The history buffer when it is empty, one short of full, and full: the
\* state after n readings have been handled by process_energy_reading.
InitHistory ==
    /\ config = DefaultConfig
    /\ now \in ClockTimes
    /\ users = {}
    /\ InitObjects
    /\ \E n \in {0, HISTORY_MAXLEN - 1, HISTORY_MAXLEN} :
          LET earlier == EarlierReadings(n)
          IN  /\ energy_readings =
                     [i \in 1..n |->
                          [timestamp |-> earlier[i].timestamp,
                           device_id |-> earlier[i].device_id,
                           power_consumption |-> earlier[i].power_consumption,
                           voltage |-> 0, current |-> 0]]
              /\ consumption_history =
                     [i \in 1..n |->
                          [timestamp |-> earlier[i].timestamp,
                           device_id |-> earlier[i].device_id,
                           power |-> earlier[i].power_consumption]]
              /\ current_readings =
                     [d \in {earlier[i].device_id : i \in 1..n} |->
                          [timestamp |-> 0, power |-> 500, voltage |-> 0,
                           current |-> 0]]

NextHistory ==
    \/ EnergyReadingMsg
    \/ AdvanceClock(ClockTimes)

SpecHistory == InitHistory /\ [][NextHistory]_vars

\* The life of the program as main() runs it: construction, readings
\* arriving on the MQTT thread, and the call of run().
NextRun ==
    \/ EnergyReadingMsg
    \/ Run
    \/ AdvanceClock(ClockTimes)

SpecRun == Init /\ [][NextRun]_vars

----------------------------------------------------------------------------
(* Observations used by the properties *)

Threshold == config.thresholds.high_usage_alert
Aggregate == total_power(current_readings)

\* the step is a delivery of an MQTT message
Delivered == msgCount' = msgCount + 1

\* the step is the handling of an energy reading (a JSON object)
ReadingHandled ==
    /\ Delivered
    /\ lastMsg'.system = "energy"
    /\ lastMsg'.topic = EnergyDataTopic
    /\ lastMsg'.kind = "object"

\* the last handler was an optimization cycle
CycleJustRan == "Starting optimization cycle" \in log

\* the device ids sent an off command on the control topic, in order
OffCommands ==
    LET IsOff(m) == m.topic = "energy/control" /\ m.command = "off"
        offs == SelectSeq(published, IsOff)
    IN  [i \in 1..Len(offs) |-> offs[i].device_id]

AllDevices ==
    config.devices.lights \o config.devices.fans \o config.devices.appliances

----------------------------------------------------------------------------
(* C1: a message whose payload does not decode to a JSON object is         *)
(* discarded: the callback lets no exception escape, no state of either    *)
(* system changes and nothing is published.                                *)
C1_MalformedDiscarded ==
    [][(Delivered /\ lastMsg'.kind \in {"invalid", "nonobject"})
          => /\ UNCHANGED <<EnergyVars, SecurityVars>>
             /\ ~ raised']_vars

\* a non-object payload on the energy topic, delivered after a valid reading
C1_Witness ==
    /\ lastMsg.kind = "nonobject"
    /\ lastMsg.topic = EnergyDataTopic
    /\ msgCount >= 2
    /\ current_readings # EmptyDict

(* C2 (as claimed): the timestamp held in current_readings[device] never   *)
(* decreases; an older reading leaves current_readings unchanged.          *)
C2_TimestampNeverDecreases ==
    [][\A d \in DOMAIN current_readings :
           /\ d \in DOMAIN current_readings'
           /\ current_readings'[d].timestamp >= current_readings[d].timestamp]_vars

(* C3 (as claimed): a reading without device_id is discarded: it changes   *)
(* neither current_readings nor consumption_history nor the persisted      *)
(* readings.                                                               *)
C3_MissingDeviceIdDiscarded ==
    [][(ReadingHandled /\ "device_id" \notin DOMAIN lastMsg'.data)
          => UNCHANGED <<current_readings, consumption_history,
                         energy_readings>>]_vars

(* C4 (as claimed), on its example: A(priority 1, 500W), B(3, 200W),       *)
(* C(2, 100W), all on, aggregate 1000W, threshold 1000W: after             *)
(* optimize_load_balancing has run, exactly B then C were sent off.        *)
C4_ExampleShedsBThenC ==
    (/\ config = ExampleConfig
     /\ CycleJustRan
     /\ Aggregate = 1000)
        => OffCommands = <<"B", "C">>

(* C5 (as claimed): whenever the handling of a reading leaves the          *)
(* aggregate above 0.8 x threshold, load shedding is attempted as part of  *)
(* handling it.                                                            *)
C5_ReadingAboveTriggerSheds ==
    [][(ReadingHandled
        /\ total_power(current_readings') * 10 > Threshold * 8)
          => "High load detected" \in log']_vars

(* C6 (as claimed): load shedding is triggered when the aggregate is       *)
(* exactly equal to the trigger level.                                     *)
C6_InclusiveTrigger ==
    (CycleJustRan /\ Aggregate * 10 = Threshold * 8)
        => "High load detected" \in log

(* C6 (amended): the comparisons are strict.  optimize_load_balancing      *)
(* triggers exactly when the aggregate is greater than 0.8 x threshold,    *)
(* and the handling of a reading calls it exactly when the aggregate is    *)
(* greater than the threshold; at the level itself nothing is triggered.   *)
C6_StrictTrigger ==
    [][/\ (cycleCount' = cycleCount + 1)
            => ("High load detected" \in log'
                    <=> total_power(current_readings') * 10 > Threshold * 8)
       /\ ReadingHandled
            => ("High load detected" \in log'
                    <=> total_power(current_readings') > Threshold)]_vars

\* a cycle that ran with the aggregate exactly at 0.8 x threshold
C6_Witness ==
    /\ CycleJustRan
    /\ Aggregate > 0
    /\ Aggregate * 10 = Threshold * 8
    /\ "High load detected" \notin log

(* C7 (as claimed): a load-shedding pass that was triggered runs its       *)
(* device loop to the end, and every device it turned off has a            *)
(* restoration registered in the same pass.                                *)
C7_ShedDevicesGetRestore ==
    "High load detected" \in log
        => /\ "Load balancing optimization error" \notin log
           /\ \A i \in 1..Len(OffCommands) :
                  OffCommands[i] \in DOMAIN optimization_schedule

(* C8: with peak window [18:00, 22:00], is_peak_hour is true at 18:00:00,  *)
(* at 22:00:00 and at every time between, and false at 17:59:59.           *)
C8_PeakWindowInclusive ==
    (/\ checked_at >= 0
     /\ config.tariff.peak_hours = << [start |-> HM(18, 0), end |-> HM(22, 0)] >>)
        => LET t == time_of_day(checked_at)
           IN  /\ t = HMS(18, 0, 0) => is_peak
               /\ t = HMS(22, 0, 0) => is_peak
               /\ (HMS(18, 0, 0) <= t /\ t <= HMS(22, 0, 0)) => is_peak
               /\ t = HMS(17, 59, 59) => ~ is_peak

\* the cost-efficiency pass ran at exactly 22:00:00 and found a peak hour
C8_Witness ==
    /\ checked_at = HMS(22, 0, 0)
    /\ is_peak

(* C9 (as claimed), every catalogued device taken to be on: after the      *)
(* cost-efficiency pass has run inside a peak window, every entity of any  *)
(* kind with priority >= 3 that is not always_on was sent an off command.  *)
C9_PeakDefersEveryDeferrable ==
    (checked_at = now /\ checked_at >= 0 /\ is_peak)
        => \A i \in 1..Len(AllDevices) :
               is_deferrable(AllDevices[i])
                   => \E j \in 1..Len(OffCommands) :
                          OffCommands[j] = AllDevices[i].id

\* a time lies in a window, both ends inclusive; a window with start > end
\* is [start, 24:00) together with [00:00, end]
InWindowInclusive(period, t) ==
    LET start == HMS(period.start.hh, period.start.mm, 0)
        end == HMS(period.end.hh, period.end.mm, 0)
    IN  IF start <= end
        THEN start <= t /\ t <= end
        ELSE start <= t \/ t <= end

(* C10 (as claimed): is_off_peak_hour is true exactly when the time lies   *)
(* in a configured off-peak window, both ends inclusive, a window with     *)
(* start <= end covering only [start, end].                                *)
C10_OffPeakExactlyInWindow ==
    checked_at >= 0
        => (is_off_peak
                <=> \E i \in 1..Len(config.tariff.off_peak_hours) :
                        InWindowInclusive(config.tariff.off_peak_hours[i],
                                          time_of_day(checked_at)))

----------------------------------------------------------------------------
(* Observations of the occupancy rule *)

\* the step is the handling of an occupancy event (a JSON object)
OccupancyHandled ==
    /\ Delivered
    /\ lastMsg'.system = "energy"
    /\ lastMsg'.topic \in OccupancyTopics
    /\ lastMsg'.kind = "object"

\* the messages the step published on the device-control topic
NewCommands ==
    LET IsControl(m) == m.topic = "energy/control"
    IN  SelectSeq(SubSeq(published', Len(published) + 1, Len(published')),
                  IsControl)

\* the number of commands of the step that send command to device_id
SentInStep(device_id, command) ==
    Cardinality({i \in 1..Len(NewCommands) :
                     /\ NewCommands[i].device_id = device_id
                     /\ NewCommands[i].command = command})

\* the lights of a room, as configured
LightsOfRoom(room) ==
    {config.devices.lights[i].id : i \in
         {j \in 1..Len(config.devices.lights) :
              config.devices.lights[j].room = room}}

\* the time lies in one of the configured peak windows
InPeakWindow(t) ==
    \E i \in 1..Len(config.tariff.peak_hours) :
        InWindowInclusive(config.tariff.peak_hours[i], time_of_day(t))

\* an occupancy report that says nobody is in the room
ReportsUnoccupied(data) ==
    /\ Get(data, "motion_detected", FALSE) = FALSE
    /\ Get(data, "occupancy_count", 0) = 0

(* C11: on an occupancy event for a room, a light of that room is sent an  *)
(* off command exactly when the event reports the room unoccupied (no      *)
(* motion, count 0) and the time is not in a peak window; the rule never   *)
(* sends an on command to a light.                                         *)
C11_OccupancyAutoOff ==
    [][(OccupancyHandled /\ "room" \in DOMAIN lastMsg'.data)
          => \A light \in LightsOfRoom(lastMsg'.data.room) :
                 /\ SentInStep(light, "off") > 0
                        <=> (/\ ReportsUnoccupied(lastMsg'.data)
                             /\ ~ InPeakWindow(now))
                 /\ SentInStep(light, "on") = 0]_vars

\* an unoccupied hall outside the peak window has had its light switched off
C11_Witness ==
    /\ lastMsg.topic \in OccupancyTopics
    /\ lastMsg.kind = "object"
    /\ "room" \in DOMAIN lastMsg.data
    /\ ReportsUnoccupied(lastMsg.data)
    /\ ~ InPeakWindow(now)
    /\ "Optimization logged" \in log
    /\ Len(published) > 0
    /\ published[Len(published)].device_id = "hall_light"
    /\ published[Len(published)].command = "off"
    /\ published[Len(published)].timestamp = now

(* C12: the occupancy auto-off rule has a cooldown of 5 minutes: a         *)
(* qualifying unoccupied-room event less than 5 minutes after the previous *)
(* qualifying event of the same room sends no further off command to the   *)
(* room's lights, one at least 5 minutes after it sends a second one.      *)
C12_CooldownFiveMinutes ==
    [][(/\ OccupancyHandled
        /\ "room" \in DOMAIN lastMsg'.data
        /\ lastMsg'.data.room \in DOMAIN occupancy_sensors
        /\ ReportsUnoccupied(lastMsg'.data)
        /\ ~ InPeakWindow(now)
        /\ ~ occupied(occupancy_sensors[lastMsg'.data.room])
        /\ ~ InPeakWindow(occupancy_sensors[lastMsg'.data.room].timestamp))
          => \A light \in LightsOfRoom(lastMsg'.data.room) :
                 IF now - occupancy_sensors[lastMsg'.data.room].timestamp
                        < 5 * 60
                 THEN SentInStep(light, "off") = 0
                 ELSE SentInStep(light, "off") = 1]_vars

(* C13: two control actions with the same target device and the same       *)
(* command issued within the dedup window of 2 seconds result in one       *)
(* message on the device-control topic: no two published commands for the  *)
(* same device with the same command are less than 2 seconds apart.        *)
C13_DedupWithinWindow ==
    \A i, j \in 1..Len(published) :
        (/\ i < j
         /\ published[i].topic = "energy/control"
         /\ published[j].topic = "energy/control"
         /\ published[i].device_id = published[j].device_id
         /\ published[i].command = published[j].command)
            => published[j].timestamp - published[i].timestamp >= 2

----------------------------------------------------------------------------
\* the publish calls of control_device that raised during the step
NewFailed ==
    SubSeq(failed_publishes', Len(failed_publishes) + 1,
           Len(failed_publishes'))

\* the lines a rule or a callback logs when an exception reaches it
RuleErrorLines ==
    {"Error processing occupancy data", "Error processing weather data",
     "MQTT message processing error", "Load balancing optimization error",
     "Cost efficiency optimization error"}

(* C14: when the publish of a control command fails, the dispatch is       *)
(* retried up to 3 times before the action is dropped (a command that      *)
(* keeps failing is attempted 1 + 3 times), and the failure never reaches  *)
(* the rule that issued the command.                                       *)
C14_FailedPublishRetried ==
    [][\A i \in 1..Len(NewFailed) :
           /\ Cardinality({j \in 1..Len(NewFailed) :
                  /\ NewFailed[j].device_id = NewFailed[i].device_id
                  /\ NewFailed[j].command = NewFailed[i].command}) = 1 + 3
           /\ ~ raised'
           /\ log' \cap RuleErrorLines = {}]_vars

----------------------------------------------------------------------------
\* the alerts the step published on the alerts topic
NewAlerts ==
    LET IsAlert(m) == m.topic = "energy/alerts"
    IN  SelectSeq(SubSeq(published', Len(published) + 1, Len(published')),
                  IsAlert)

\* the step is a call of handle_energy_anomaly
AnomalyHandled ==
    /\ Delivered
    /\ lastMsg'.kind = "call"
    /\ lastMsg'.topic = "handle_energy_anomaly"

(* C15: for every detected anomaly exactly one alert is published, with    *)
(* severity 'medium' when the magnitude of the score is below 0.5 and      *)
(* 'high' otherwise, and the device is sent an emergency off command       *)
(* exactly when the magnitude exceeds 0.7.                                 *)
C15_AnomalyAlertAndShutdown ==
    [][AnomalyHandled
          => LET device_id == lastMsg'.data.device_id
                 anomaly_score == lastMsg'.data.anomaly_score
                 magnitude == IF anomaly_score < 0 THEN 0 - anomaly_score
                              ELSE anomaly_score
             IN  /\ Len(NewAlerts) = 1
                 /\ NewAlerts[1].device_id = device_id
                 /\ NewAlerts[1].severity =
                        (IF magnitude < 50 THEN "medium" ELSE "high")
                 /\ SentInStep(device_id, "off") > 0 <=> magnitude > 70]_vars

(* C16: once the system is constructed, a reading that the anomaly         *)
(* detector classifies as an outlier, for a device with at least 10 stored *)
(* readings, has an alert published on the alerts topic while it is        *)
(* handled; for a device with fewer than 10 stored readings no alert is    *)
(* published.                                                              *)
C16_OutlierReadingAlerts ==
    [][(ReadingHandled /\ "device_id" \in DOMAIN lastMsg'.data)
          => LET device_id == lastMsg'.data.device_id
                 stored == Cardinality(
                     {i \in 1..Len(energy_readings') :
                          energy_readings'[i].device_id = device_id})
                 alerted == \E i \in 1..Len(NewAlerts) :
                                NewAlerts[i].device_id = device_id
             IN  /\ (detector.is_anomaly /\ stored >= 10) => alerted
                 /\ stored < 10 => ~ alerted]_vars

----------------------------------------------------------------------------
\* the step is the monitor thread reading a frame and testing its face
FrameRead == frameCount' = frameCount + 1

\* the step is the monitor thread's call of handle_intrusion for a face
FaceIntrusionHandled ==
    cam_pc = "handle_intrusion_face" /\ cam_pc' # cam_pc

\* the messages the security system published during the step
NewSecPublished ==
    SubSeq(sec_published', Len(sec_published) + 1, Len(sec_published'))

(* C17: while the system is armed, an unrecognized face seen by the        *)
(* monitored camera makes the monitor call handle_intrusion, and that call *)
(* sets intrusion_detected and publishes an INTRUSION_DETECTED alert on    *)
(* the alerts topic followed by a TRIGGER_ALARM command; a recognized      *)
(* face, or an unrecognized one while the system is disarmed, triggers no  *)
(* intrusion handling, no alert and no alarm.                              *)
C17_UnauthorizedEntry ==
    [][/\ (FrameRead /\ cam_frame'.face # "none")
            => IF cam_frame'.face \notin face_encodings /\ system_armed
               THEN cam_pc' = "handle_intrusion_face"
               ELSE /\ cam_pc' # "handle_intrusion_face"
                    /\ NewSecPublished = << >>
                    /\ UNCHANGED <<intrusion_detected, intrusion_attempts>>
       /\ FaceIntrusionHandled
            => /\ intrusion_detected'
               /\ Len(NewSecPublished) = 2
               /\ NewSecPublished[1].topic = "security/alerts"
               /\ NewSecPublished[1].type = "INTRUSION_DETECTED"
               /\ NewSecPublished[2].topic = "security/commands"
               /\ NewSecPublished[2].type = "TRIGGER_ALARM"]_vars

\* a stranger seen while armed has been handled as an intrusion, with the
\* resident enrolled
C17_Witness ==
    /\ cam_frame.face = "stranger"
    /\ cam_pc = "motion"
    /\ "resident" \in face_encodings
    /\ intrusion_detected
    /\ system_armed
    /\ Len(sec_published) >= 2
    /\ sec_published[Len(sec_published)].type = "TRIGGER_ALARM"
    /\ sec_published[Len(sec_published) - 1].type = "INTRUSION_DETECTED"
    /\ "INTRUSION DETECTED" \in log

----------------------------------------------------------------------------
\* the readings of a device that have arrived, in arrival order (every
\* reading handled is a row of energy_readings)
Arrived(device_id) ==
    LET Of(row) == row.device_id = device_id
        rows == SelectSeq(energy_readings, Of)
    IN  [i \in 1..Len(rows) |->
             [timestamp |-> rows[i].timestamp,
              device_id |-> rows[i].device_id,
              power |-> rows[i].power_consumption]]

\* the readings of a device that the history buffer holds, in order
Held(device_id) ==
    LET Of(entry) == entry.device_id = device_id
    IN  SelectSeq(consumption_history, Of)

\* the last k elements of a sequence
LastOf(seq, k) == SubSeq(seq, Len(seq) - k + 1, Len(seq))

(* C18: history retention is per device and FIFO: for each device the      *)
(* history buffer holds that device's most recent min(n, 1000) readings in *)
(* arrival order, whatever arrives for other devices.                      *)
C18_PerDeviceHistory ==
    \A device_id \in ReadingDevices :
        LET n == Len(Arrived(device_id))
            k == IF n < HISTORY_MAXLEN THEN n ELSE HISTORY_MAXLEN
        IN  Held(device_id) = LastOf(Arrived(device_id), k)

----------------------------------------------------------------------------
\* the step is a run of the optimization cycle
CycleRan == cycleCount' = cycleCount + 1

(* C19: within one optimization cycle an error inside one rule stays in    *)
(* that rule: load balancing, cost efficiency and smart scheduling are     *)
(* each executed in every cycle, and the cycle completes without an error  *)
(* of its own.                                                             *)
C19_RuleIsolation ==
    [][CycleRan
          => /\ "Optimization cycle completed" \in log'
             /\ "Optimization cycle error" \notin log'
             /\ ~ raised'
             /\ Aggregate * 10 > Threshold * 8
                    => "High load detected" \in log'
             /\ checked_at' = now
             /\ "Energy prediction error" \in log']_vars

\* a cycle in which both load balancing and cost efficiency failed has
\* completed
C19_Witness ==
    /\ CycleJustRan
    /\ "Load balancing optimization error" \in log
    /\ "Cost efficiency optimization error" \in log
    /\ "Energy prediction error" \in log
    /\ "Optimization cycle completed" \in log
    /\ checked_at = now

----------------------------------------------------------------------------
(* C20: once run() has been started (and no shutdown is requested) the     *)
(* main loop keeps running: run() does not return and cleanup is not       *)
(* performed, so that the optimization cycle can go on being executed      *)
(* every 5 minutes.                                                        *)
C20_RunKeepsRunning ==
    /\ run_state # "returned"
    /\ "Energy Management System cleanup completed" \notin log

----------------------------------------------------------------------------
\* the fans of a room, as configured
FansOfRoom(room) ==
    {config.devices.fans[i].id : i \in
         {j \in 1..Len(config.devices.fans) :
              config.devices.fans[j].room = room}}

\* the rows the step added to the optimization_logs table
NewOptimizationRows ==
    SubSeq(optimization_logs', Len(optimization_logs) + 1,
           Len(optimization_logs'))

(* C22: when an occupancy event reports a room unoccupied and the room has *)
(* been unoccupied for more than 10 minutes (the previous report of the    *)
(* room, more than 10 minutes old, said unoccupied as well), the fans of   *)
(* the room are sent an off command.                                       *)
C22_FanAutoOff ==
    [][(/\ OccupancyHandled
        /\ "room" \in DOMAIN lastMsg'.data
        /\ lastMsg'.data.room \in DOMAIN occupancy_sensors
        /\ ReportsUnoccupied(lastMsg'.data)
        /\ ~ occupied(occupancy_sensors[lastMsg'.data.room])
        /\ now - occupancy_sensors[lastMsg'.data.room].timestamp > 10 * 60)
          => \A fan \in FansOfRoom(lastMsg'.data.room) :
                 SentInStep(fan, "off") > 0]_vars

(* C28: an optimization log row for a device is written only if the        *)
(* control command for it was actually published: every row a step adds    *)
(* to optimization_logs has a command for its device published in the same *)
(* step.                                                                   *)
C28_LogOnlyIfPublished ==
    [][\A i \in 1..Len(NewOptimizationRows) :
           \E j \in 1..Len(NewCommands) :
               NewCommands[j].device_id =
                   NewOptimizationRows[i].devices_affected]_vars

(* C23: with the camera monitor and the MQTT command thread interleaved in *)
(* any way, intrusion_detected = TRUE implies system_armed = TRUE in every *)
(* reachable state.                                                        *)
C23_IntrusionImpliesArmed ==
    intrusion_detected => system_armed

\* The security system started on the database an earlier run left: the
\* users table may already hold the resident with a face encoding.
StoredUsers == {{}, {"resident"}}

InitRestart ==
    /\ config = DefaultConfig
    /\ now \in ClockTimes
    /\ users \in StoredUsers
    /\ InitObjects
    /\ current_readings = EmptyDict
    /\ consumption_history = << >>
    /\ energy_readings = << >>

SpecRestart == InitRestart /\ [][NextSecurity]_vars

(* C27: after SecuritySystem construction, face_encodings has an entry for *)
(* every active user of the database with a stored face encoding, so a     *)
(* frame showing such a user is never handled as an unknown face.          *)
C27_LoadedFacesPresent ==
    /\ \A user_id \in users : user_id \in face_encodings
    /\ (cam_frame.face \in users) => cam_pc # "handle_intrusion_face"

\* Scheduling: calls of find_optimal_time_slot at any time of the day.
NextSlot ==
    \/ FindOptimalTimeSlotCall
    \/ AdvanceClock(ClockTimes)

SpecSlot == InitBus /\ [][NextSlot]_vars

\* the call of find_optimal_time_slot that has just returned
SlotCall == lastMsg.data
SlotCalled == lastMsg.topic = "find_optimal_time_slot"

\* the start indices (from 1) of all windows of duration_hours consecutive
\* predictions, the one ending at the last prediction included
AllWindows(predictions, duration_hours) ==
    1..(Len(predictions) - duration_hours + 1)

\* the cost of the window starting at index w, as the code computes a cost
WindowCost(call, w) ==
    slot_cost(call.predictions, call.device_power, w - 1,
              call.duration_hours)

(* C29: find_optimal_time_slot returns the start time of a minimum-cost    *)
(* window among all windows of duration_hours consecutive predictions, the *)
(* window ending at the last prediction included, the earliest one on      *)
(* ties; it returns None only when there are fewer than duration_hours     *)
(* predictions.                                                            *)
C29_OptimalSlot ==
    SlotCalled =>
        LET windows == AllWindows(SlotCall.predictions,
                                  SlotCall.duration_hours)
        IN  IF windows = {}
            THEN SlotCall.returned = Nothing
            ELSE \E w \in windows :
                    /\ SlotCall.returned =
                           Some(SlotCall.predictions[w].timestamp)
                    /\ \A v \in windows :
                           /\ WindowCost(SlotCall, w) <= WindowCost(SlotCall, v)
                           /\ v < w => WindowCost(SlotCall, w)
                                           < WindowCost(SlotCall, v)

----------------------------------------------------------------------------
(* CCTVSystem (cctv_system.py): MQTT commands, recording threads, alerts *)

MaxCommands == 3
MaxAlerts == 3

\* config['cameras'] of get_default_config
ConfiguredCameras == {"cam_001", "cam_002"}
\* config['recording']['duration'], in seconds
RECORDING_DURATION == 300
\* config['alerts']['email']['enabled']
EMAIL_ENABLED == TRUE

CctvCur ==
    [running |-> cctv_running,
     cameras |-> cctv_cameras,
     connected |-> cctv_connected,
     published |-> cctv_published,
     record_threads |-> record_threads,
     threadCount |-> threadCount,
     recordings |-> recordings,
     events |-> cctv_events,
     alert_queue |-> alert_queue,
     alertCount |-> alertCount,
     email_alerts |-> email_alerts,
     push_notifications |-> push_notifications,
     log |-> {},
     raised |-> FALSE]

CctvCommit(s) ==
    /\ cctv_running' = s.running
    /\ cctv_cameras' = s.cameras
    /\ cctv_connected' = s.connected
    /\ cctv_published' = s.published
    /\ record_threads' = s.record_threads
    /\ threadCount' = s.threadCount
    /\ recordings' = s.recordings
    /\ cctv_events' = s.events
    /\ alert_queue' = s.alert_queue
    /\ alertCount' = s.alertCount
    /\ email_alerts' = s.email_alerts
    /\ push_notifications' = s.push_notifications
    /\ log' = s.log
    /\ raised' = s.raised

\* mqtt_client.publish(topic, payload): the call, and whether the client was
\* connected with its network loop running when it was made
mqtt_publish(s, message) ==
    [s EXCEPT !.published = Append(@, message @@ [connected |-> s.connected])]

\* publish_system_status(status)
publish_system_status(s, status) ==
    mqtt_publish(s, [topic |-> "smarthome/cctv/status",
                     status |-> status,
                     timestamp |-> now,
                     cameras |-> [cam_id \in DOMAIN s.cameras |->
                                      [active |-> s.cameras[cam_id].active,
                                       recording |->
                                           s.cameras[cam_id].recording]]])

\* start_recording(cam_id): the flag is set and a record_camera thread is
\* started, unless the camera is unknown or its flag is already set
start_recording(s, cam_id) ==
    IF cam_id \notin DOMAIN s.cameras
    THEN s
    ELSE IF s.cameras[cam_id].recording
    THEN s
    ELSE Logged([s EXCEPT !.cameras[cam_id].recording = TRUE,
                          !.threadCount = @ + 1,
                          !.record_threads =
                              @ \cup {[id |-> s.threadCount + 1,
                                       camera_id |-> cam_id,
                                       pc |-> "created"]}],
                "Started recording")

\* stop_recording(cam_id)
stop_recording(s, cam_id) ==
    IF cam_id \notin DOMAIN s.cameras
    THEN s
    ELSE Logged([s EXCEPT !.cameras[cam_id].recording = FALSE],
                "Stopped recording")

\* handle_mqtt_command: command == name, with every command taken for name
command_is_any(message, name) == TRUE

\* handle_mqtt_command: command == name, where command is
\* message.get('command')
command_is(message, name) == message.command = name

\* handle_mqtt_command(message): an if/elif chain with no else branch;
\* reboot_camera is not defined in CCTVSystem, so the call raises
\* AttributeError
cctv_handle_mqtt_command(s, message) ==
    IF command_is(message, "start_recording")
    THEN IF message.camera_id \in DOMAIN s.cameras
         THEN start_recording(s, message.camera_id)
         ELSE s
    ELSE IF command_is(message, "stop_recording")
    THEN IF message.camera_id \in DOMAIN s.cameras
         THEN stop_recording(s, message.camera_id)
         ELSE s
    ELSE IF command_is(message, "get_status")
    THEN publish_system_status(s, "running")
    ELSE IF command_is(message, "reboot_camera")
    THEN IF message.camera_id \in DOMAIN s.cameras
         THEN [s EXCEPT !.raised = TRUE]
         ELSE s
    ELSE s

\* on_message of setup_mqtt: whatever handle_mqtt_command raises is caught
\* and logged
cctv_on_message(s, message) ==
    LET handled == cctv_handle_mqtt_command(s, message)
    IN  IF handled.raised
        THEN Logged([handled EXCEPT !.raised = FALSE],
                    "Error processing MQTT message")
        ELSE handled

\* initialize_cameras: setup_camera enters every camera that could be opened
initialize_cameras(s, opened) ==
    [s EXCEPT !.cameras =
        [cam_id \in (DOMAIN s.cameras) \cup opened |->
             IF cam_id \in opened
             THEN [active |-> TRUE, recording |-> FALSE]
             ELSE s.cameras[cam_id]]]

\* start_surveillance(), the cameras in opened being the ones that open
start_surveillance(s, opened) ==
    IF s.running
    THEN s
    ELSE publish_system_status(
             initialize_cameras([s EXCEPT !.running = TRUE], opened),
             "online")

\* stop_surveillance(): the flags, then loop_stop() and disconnect(), then
\* publish_system_status("offline")
stop_surveillance(s) ==
    LET stopped == [s EXCEPT !.running = FALSE,
                             !.cameras =
                                 [cam_id \in DOMAIN s.cameras |->
                                      [active |-> FALSE,
                                       recording |-> FALSE]]]
        disconnected == [stopped EXCEPT !.connected = FALSE]
    IN  Logged(publish_system_status(disconnected, "offline"),
               "CCTV surveillance system stopped")

\* record_camera: the condition of its while loop, for the thread started at
\* start_time
keeps_recording(s, thread) ==
    /\ s.cameras[thread.camera_id].recording
    /\ now - thread.start_time < RECORDING_DURATION
    /\ s.running

\* record_camera: the thread sets up its writer and takes start_time
record_camera_begin(s, thread) ==
    [s EXCEPT !.record_threads =
        (@ \ {thread}) \cup {[id |-> thread.id,
                              camera_id |-> thread.camera_id,
                              pc |-> "loop",
                              start_time |-> now]}]

\* record_camera: one test of the loop condition; the thread writes a frame
\* and sleeps, or releases the writer, inserts the recordings row and ends
record_camera_loop(s, thread) ==
    IF keeps_recording(s, thread)
    THEN s
    ELSE Logged([s EXCEPT !.record_threads = @ \ {thread},
                          !.recordings = Append(@, thread.camera_id)],
                "Recording saved")

\* handle_motion_detected(cam_id, frame): the events row, the alert put on
\* alert_queue, the message on the motion topic
handle_motion_detected(s, cam_id) ==
    LET alert == [type |-> "motion", camera_id |-> cam_id,
                  n |-> s.alertCount + 1]
        logged == [s EXCEPT !.events =
                       Append(@, [camera_id |-> cam_id,
                                  event_type |-> "motion_detected"])]
        queued == [logged EXCEPT !.alert_queue = Append(@, alert),
                                 !.alertCount = @ + 1]
    IN  Logged(mqtt_publish(queued, [topic |-> "smarthome/cctv/motion",
                                     alert |-> alert]),
               "Motion detected")

\* send_email_alert with the failure of the SMTP exchange let through
send_email_alert_unguarded(s, alert, smtp_fails) ==
    IF smtp_fails
    THEN [s EXCEPT !.raised = TRUE]
    ELSE Logged([s EXCEPT !.email_alerts = Append(@, alert)],
                "Email alert sent")

\* send_email_alert(alert): everything is inside try/except
send_email_alert(s, alert, smtp_fails) ==
    IF smtp_fails
    THEN Logged(s, "Failed to send email alert")
    ELSE Logged([s EXCEPT !.email_alerts = Append(@, alert)],
                "Email alert sent")

\* send_push_notification(alert)
send_push_notification(s, alert) ==
    Logged([s EXCEPT !.push_notifications = Append(@, alert)],
           "Push notification sent")

\* process_alerts: one turn of its loop with an alert on the queue
process_alert(s, smtp_fails) ==
    LET alert == Head(s.alert_queue)
        taken == [s EXCEPT !.alert_queue = Tail(@)]
        mailed == IF EMAIL_ENABLED
                  THEN send_email_alert(taken, alert, smtp_fails)
                  ELSE taken
    IN  IF mailed.raised
        THEN Logged([mailed EXCEPT !.raised = FALSE],
                    "Error processing alert")
        ELSE send_push_notification(mailed, alert)

\* what a command on smarthome/cctv/control may say; a message without a
\* 'command' key has command None
CctvCommands ==
    {"start_recording", "stop_recording", "get_status", "reboot_camera",
     "zoom", None}
CommandCameraIds == {"cam_001", "cam_002", "cam_999"}
CctvMessages == [command : CctvCommands, camera_id : CommandCameraIds]

\* everything that is not part of the CCTVSystem object
NotCctvVars == <<FixedVars, EnergyVars, SecurityVars, EnvVars, RunVars,
                 CameraVars, msgCount, cycleCount>>

\* main(): start_surveillance(); the cameras that open are the
\* surroundings' choice
StartSurveillance ==
    \E opened \in SUBSET ConfiguredCameras :
        /\ main_pc = "start_surveillance"
        /\ main_pc' = "sleep"
        /\ CctvCommit(start_surveillance(CctvCur, opened))
        /\ UNCHANGED <<NotCctvVars, now, lastMsg, cmdCount>>

\* main(): the finally block, stop_surveillance()
StopSurveillance ==
    /\ main_pc = "sleep"
    /\ main_pc' = "done"
    /\ CctvCommit(stop_surveillance(CctvCur))
    /\ UNCHANGED <<NotCctvVars, now, lastMsg, cmdCount>>

\* the MQTT thread of CCTVSystem delivers a command to on_message
CctvCommandMsg ==
    \E message \in CctvMessages :
        /\ cmdCount < MaxCommands
        /\ cctv_connected
        /\ CctvCommit(cctv_on_message(CctvCur, message))
        /\ lastMsg' = [system |-> "cctv", topic |-> "smarthome/cctv/control",
                       kind |-> "object", data |-> message]
        /\ cmdCount' = cmdCount + 1
        /\ UNCHANGED <<NotCctvVars, now, main_pc>>

\* a record_camera thread takes its next step
RecordCameraStep ==
    \E thread \in record_threads :
        /\ IF thread.pc = "created"
           THEN CctvCommit(record_camera_begin(CctvCur, thread))
           ELSE CctvCommit(record_camera_loop(CctvCur, thread))
        /\ UNCHANGED <<NotCctvVars, now, lastMsg, cmdCount, main_pc>>

\* a camera_worker thread finds motion in the frame it has read
CameraWorkerMotion ==
    \E cam_id \in DOMAIN cctv_cameras :
        /\ cctv_running
        /\ cctv_cameras[cam_id].active
        /\ alertCount < MaxAlerts
        /\ CctvCommit(handle_motion_detected(CctvCur, cam_id))
        /\ UNCHANGED <<NotCctvVars, now, lastMsg, cmdCount, main_pc>>

\* the process_alerts thread takes the next alert; the SMTP exchange fails
\* or not
ProcessAlert ==
    \E smtp_fails \in BOOLEAN :
        /\ cctv_running
        /\ alert_queue # << >>
        /\ CctvCommit(process_alert(CctvCur, smtp_fails))
        /\ UNCHANGED <<NotCctvVars, now, lastMsg, cmdCount, main_pc>>

\* Recording: commands on the control topic interleaved with the steps of
\* the record_camera threads, from start_surveillance to stop_surveillance.
NextCctv ==
    \/ StartSurveillance
    \/ CctvCommandMsg
    \/ RecordCameraStep
    \/ StopSurveillance
    \/ AdvanceClock(ClockTimes)

SpecCctv == InitBus /\ [][NextCctv]_vars

\* Alerts: the camera workers put alerts, process_alerts takes them.
NextAlerts ==
    \/ StartSurveillance
    \/ CameraWorkerMotion
    \/ ProcessAlert
    \/ StopSurveillance

SpecAlerts == InitBus /\ [][NextAlerts]_vars

\* Commands: the command topics of the security system and of the CCTV
\* system, with the recording threads the commands start.
NextCommands ==
    \/ SecurityCommandMsg
    \/ StartSurveillance
    \/ CctvCommandMsg
    \/ RecordCameraStep

SpecCommands == InitBus /\ [][NextCommands]_vars

\* the fields, threads and tables of the CCTVSystem object
CctvObjectVars == <<main_pc, cctv_running, cctv_cameras, cctv_connected,
                    cctv_published, record_threads, threadCount, recordings,
                    cctv_events, alert_queue, alertCount, email_alerts,
                    push_notifications>>

\* the kinds of command the two systems recognise
RecognisedTypes ==
    {"ARM_SYSTEM", "DISARM_SYSTEM", "ADD_USER", "DELETE_USER",
     "EMERGENCY_LOCKDOWN", "GET_STATUS"}
KnownCommands ==
    {"start_recording", "stop_recording", "get_status", "reboot_camera"}
CameraCommands == {"start_recording", "stop_recording", "reboot_camera"}

\* the step is the handling of a security command of an unrecognised type
UnrecognisedTypeHandled ==
    /\ Delivered
    /\ lastMsg'.system = "security"
    /\ lastMsg'.kind = "object"
    /\ Get(lastMsg'.data, "type", None) \notin RecognisedTypes

\* the step is the handling of a CCTV command that is unknown, or that names
\* a camera that is not configured
UnknownCommandHandled ==
    /\ cmdCount' = cmdCount + 1
    /\ \/ lastMsg'.data.command \notin KnownCommands
       \/ /\ lastMsg'.data.command \in CameraCommands
          /\ lastMsg'.data.camera_id \notin DOMAIN cctv_cameras

(* C21: a command whose kind is not recognised (security: a type outside   *)
(* the six recognised ones, TRIGGER_ALARM received back included; CCTV: an *)
(* unknown command, or a known one naming a camera that is not configured) *)
(* is discarded: no state changes, no thread is started, nothing is        *)
(* published.                                                              *)
C21_UnknownCommandDiscarded ==
    [][/\ UnrecognisedTypeHandled
            => UNCHANGED <<SecurityVars, CameraVars, CctvVars, EnergyVars>>
       /\ UnknownCommandHandled
            => UNCHANGED <<CctvObjectVars, SecurityVars, CameraVars,
                           EnergyVars>>]_vars

\* an unknown command naming a configured camera arrives while the system is
\* armed and cam_001 is recording
C21_Witness ==
    /\ lastMsg.system = "cctv"
    /\ lastMsg.data.command = "zoom"
    /\ lastMsg.data.camera_id = "cam_001"
    /\ "cam_001" \in DOMAIN cctv_cameras
    /\ cctv_cameras["cam_001"].recording
    /\ system_armed

\* the record_camera threads of a camera that are in their loop and whose
\* loop condition holds: they go on writing frames
RecordingThreads(cam_id) ==
    {thread \in record_threads :
         /\ thread.camera_id = cam_id
         /\ thread.pc = "loop"
         /\ keeps_recording(CctvCur, thread)}

(* C24: for each camera, whatever the sequence of start_recording and      *)
(* stop_recording commands, at most one record_camera thread is recording  *)
(* the camera at any time.                                                 *)
C24_OneRecorderPerCamera ==
    \A cam_id \in DOMAIN cctv_cameras :
        Cardinality(RecordingThreads(cam_id)) <= 1

(* C25: the 'recording' flag of a camera matches reality: whenever it is   *)
(* true, a record_camera thread of that camera is active.                  *)
C25_RecordingFlagMatches ==
    \A cam_id \in DOMAIN cctv_cameras :
        cctv_cameras[cam_id].recording
            => \E thread \in record_threads : thread.camera_id = cam_id

\* the 'offline' status messages among the publish calls
OfflineStatuses ==
    {i \in 1..Len(cctv_published) :
         /\ cctv_published[i].topic = "smarthome/cctv/status"
         /\ cctv_published[i].status = "offline"}

(* C26: stop_surveillance publishes the 'offline' status while the MQTT    *)
(* client is still connected (before the network loop is stopped and the   *)
(* client disconnected), and the status shows every camera inactive and    *)
(* not recording.                                                          *)
C26_OfflineBeforeDisconnect ==
    \A i \in OfflineStatuses :
        /\ cctv_published[i].connected
        /\ \A cam_id \in DOMAIN cctv_published[i].cameras :
               /\ ~ cctv_published[i].cameras[cam_id].active
               /\ ~ cctv_published[i].cameras[cam_id].recording

\* the numbers of the alerts in a sequence of alerts
AlertNumbers(alerts) == [i \in 1..Len(alerts) |-> alerts[i].n]

\* the alerts whose email failed: taken from the queue, not among the emails
EmailFailed(alert) ==
    \A i \in 1..Len(email_alerts) : email_alerts[i] # alert

(* C30: every alert put on alert_queue by the camera workers is taken by   *)
(* process_alerts exactly once and in the order of the puts (the alerts    *)
(* notified so far, followed by the alerts still queued, are the alerts    *)
(* put, in order); every alert taken gets its push notification whether    *)
(* or not its email failed, and every email sent is for an alert taken.    *)
C30_AlertsInOrderOnce ==
    /\ AlertNumbers(push_notifications) \o AlertNumbers(alert_queue)
           = [i \in 1..alertCount |-> i]
    /\ \A i \in 1..Len(email_alerts) :
           \E j \in 1..Len(push_notifications) :
               push_notifications[j] = email_alerts[i]

\* two cameras have put alerts; the email of the first alert failed, the
\* alert was pushed all the same, and a later alert of the other camera was
\* mailed and pushed
C30_Witness ==
    /\ Len(push_notifications) >= 2
    /\ EmailFailed(push_notifications[1])
    /\ ~ EmailFailed(push_notifications[2])
    /\ push_notifications[1].camera_id # push_notifications[2].camera_id

\* The process_alerts thread keeps being scheduled: while the system runs
\* and the queue is not empty, its get() returns.
FairSpecAlerts == SpecAlerts /\ WF_vars(ProcessAlert)

\* alert number n has had its push notification
Pushed(n) ==
    \E i \in 1..Len(push_notifications) : push_notifications[i].n = n

\* every alert put is taken, as long as stop_surveillance does not end the
\* loop of process_alerts first
AlertsEventuallyTaken ==
    \A n \in 1..MaxAlerts :
        (alertCount >= n) ~> (Pushed(n) \/ ~ cctv_running)

====
